---- MODULE Spec2Model ----
(***************************************************************************)
(* The GPU voxel meshing plugin (GpuReadbackPlugin): the control domain    *)
(* (Bevy main world) owns the volumes, the GPU-execution domain (render    *)
(* world) rebuilds the device resources of every volume each round,        *)
(* dispatches the compute program, copies the vertices to a staging        *)
(* buffer and sends the mapped bytes over an unbounded channel that the    *)
(* control domain polls.                                                   *)
(***************************************************************************)
EXTENDS Integers, Sequences, FiniteSets, TLC

\* ------------------------------------------------------------- bounds
\* Rounds (frames) of the GPU-execution domain that the model follows.
MaxRounds == 2
\* Most primitives one dispatch of the compute program appends.
MaxAppend == 1

\* -------------------------------------------------- program constants
CHUNK_SZ == 32
CHUNK_SZ_2 == CHUNK_SZ * CHUNK_SZ
CHUNK_SZ_3 == CHUNK_SZ * CHUNK_SZ * CHUNK_SZ

\* reserve(256, ..) of the two lookup tables
EDGE_TABLE_LEN == 256
TRI_TABLE_LEN == 256
\* reserve(2, ..) of the atomics buffer
ATOMICS_LEN == 2
\* element sizes in bytes: Vec4 (vertices_buffer), Vec<Vec3> record of
\* VertexBuffer (stride of a vec3 in a runtime array), size_of::<Vec3>()
VEC4_SIZE == 16
VERTEX_RECORD_SIZE == 16
VEC3_HOST_SIZE == 12

\* ------------------------------------------------------------ volumes
\* The entity generate_random spawns at Startup, and one entity the user
\* of the plugin spawns with the public components Volumetric/VoxelMaterial.
GenEntity == "gen"
UserEntity == "user"
Entity == {GenEntity, UserEntity}

\* VoxelMaterial { voxels, chunk_size }: the voxels are kept by their number.
VoxelMaterial(chunk_size, nvoxels) == [chunk_size |-> chunk_size, nvoxels |-> nvoxels]

\* What generate_random spawns: CHUNK_SZ_3 voxels, chunk_size: CHUNK_SZ_3.
GeneratedMaterial == VoxelMaterial(CHUNK_SZ_3, CHUNK_SZ_3)

\* Descriptors a user of the plugin spawns: chunk_size^3 voxels (the data
\* model), with chunk size zero, a small one and the plugin's own.
UserChunkSizes == {0, 2, CHUNK_SZ}
UserMaterials == {VoxelMaterial(c, c * c * c) : c \in UserChunkSizes}

\* Option<T>: <<>> is None, <<x>> is Some(x).
None == <<>>
Some(x) == <<x>>
IsSome(o) == o # <<>>
Unwrap(o) == o[1]

\* HashMap::insert
MapInsert(m, k, v) == [x \in (DOMAIN m) \cup {k} |-> IF x = k THEN v ELSE m[x]]
EmptyMap == [x \in {} |-> 0]

\* ---------------------------------------------------------- BufferVec
\* bevy's BufferVec as GpuVoxelMaterial::new uses it: the values pushed on
\* the host (len), the capacity of the device buffer, whether the device
\* buffer exists, and how many elements were uploaded to it.
BufferVec_new == [capacity |-> 0, len |-> 0, buffer |-> FALSE, uploaded |-> 0]

BufferVec_reserve(bv, capacity) ==
    IF capacity > bv.capacity
    THEN [bv EXCEPT !.capacity = capacity, !.buffer = TRUE, !.uploaded = 0]
    ELSE bv

BufferVec_push_n(bv, n) == [bv EXCEPT !.len = @ + n]

BufferVec_write_buffer(bv) ==
    IF bv.len = 0 THEN bv
    ELSE [BufferVec_reserve(bv, bv.len) EXCEPT !.uploaded = bv.len]

\* BufferVec::binding() / buffer(): Some(handle) once the device buffer exists.
\* A handle names the allocation (the id of the GpuVoxelMaterial) and the field.
BufferVec_binding(bv, id, field) ==
    IF bv.buffer THEN Some([id |-> id, field |-> field]) ELSE None

\* --------------------------------------------------- GpuVoxelMaterial
\* GpuVoxelMaterial::new: every buffer of one volume, allocated under the
\* fresh allocation id `id`. voxels_reserved is the capacity the voxels
\* buffer has after reserve() and before the voxels are pushed and written.
GpuVoxelMaterial_new(id, voxel_material) ==
    LET chunk_size == voxel_material.chunk_size
        voxels_0 == BufferVec_reserve(BufferVec_new, chunk_size)
        voxels_1 == BufferVec_push_n(voxels_0, voxel_material.nvoxels)
    IN  [ id |-> id,
          chunk_size |-> chunk_size,
          voxels_reserved |-> voxels_0.capacity,
          voxels_buffer |-> BufferVec_write_buffer(voxels_1),
          edge_table_buffer |->
              BufferVec_write_buffer(BufferVec_push_n(
                  BufferVec_reserve(BufferVec_new, EDGE_TABLE_LEN), EDGE_TABLE_LEN)),
          tri_table_buffer |->
              BufferVec_write_buffer(BufferVec_push_n(
                  BufferVec_reserve(BufferVec_new, TRI_TABLE_LEN), TRI_TABLE_LEN)),
          vertices_buffer |-> BufferVec_reserve(BufferVec_new, chunk_size),
          vertices_staging_buffer |->
              [size |-> VERTEX_RECORD_SIZE * chunk_size, mapped |-> FALSE, data |-> 0],
          uvs_buffer |-> BufferVec_reserve(BufferVec_new, chunk_size * 4 * 6),
          normals_buffer |-> BufferVec_reserve(BufferVec_new, chunk_size * 4 * 6),
          indices_buffer |-> BufferVec_reserve(BufferVec_new, chunk_size * 6 * 6),
          atomics_buffer |-> BufferVec_reserve(BufferVec_new, ATOMICS_LEN) ]

\* Device memory of a fresh allocation: wgpu zero-initialises buffers.
\* atomics: the two head counters; vertices: 0 while never written, else the
\* round of the dispatch that wrote the buffer.
FreshMemory == [vertices_head |-> 0, indices_head |-> 0, vertices |-> 0]

\* ------------------------------------------- VoxelMeshComputePipeline
\* The bind group layout from_world declares: binding index and shader type.
bind_group_1_layout ==
    << [binding |-> 0, ty |-> "EdgeTable"],
       [binding |-> 1, ty |-> "TriangleTable"],
       [binding |-> 2, ty |-> "VoxelBuffer"],
       [binding |-> 3, ty |-> "Atomics"],
       [binding |-> 4, ty |-> "VertexBuffer"],
       [binding |-> 5, ty |-> "NormalBuffer"],
       [binding |-> 6, ty |-> "IndexBuffer"],
       [binding |-> 7, ty |-> "UvBuffer"] >>

\* ----------------------------------------- GpuVoxelMaterialBindGroups
\* Mutant: the entries at 6 and 7 reference each other's buffer.
BindGroupEntries_indices_uvs_swapped(m) ==
    << [binding |-> 0, resource |->
            BufferVec_binding(m.edge_table_buffer, m.id, "edge_table_buffer")],
       [binding |-> 1, resource |->
            BufferVec_binding(m.tri_table_buffer, m.id, "tri_table_buffer")],
       [binding |-> 2, resource |->
            BufferVec_binding(m.voxels_buffer, m.id, "voxels_buffer")],
       [binding |-> 3, resource |->
            BufferVec_binding(m.atomics_buffer, m.id, "atomics_buffer")],
       [binding |-> 4, resource |->
            BufferVec_binding(m.vertices_buffer, m.id, "vertices_buffer")],
       [binding |-> 5, resource |->
            BufferVec_binding(m.normals_buffer, m.id, "normals_buffer")],
       [binding |-> 6, resource |->
            BufferVec_binding(m.uvs_buffer, m.id, "uvs_buffer")],
       [binding |-> 7, resource |->
            BufferVec_binding(m.indices_buffer, m.id, "indices_buffer")] >>

\* The entries GpuVoxelMaterialBindGroups::new hands to create_bind_group:
\* (index, buffer.binding()) in the order written.
BindGroupEntries(m) ==
    << [binding |-> 0, resource |->
            BufferVec_binding(m.edge_table_buffer, m.id, "edge_table_buffer")],
       [binding |-> 1, resource |->
            BufferVec_binding(m.tri_table_buffer, m.id, "tri_table_buffer")],
       [binding |-> 2, resource |->
            BufferVec_binding(m.voxels_buffer, m.id, "voxels_buffer")],
       [binding |-> 3, resource |->
            BufferVec_binding(m.atomics_buffer, m.id, "atomics_buffer")],
       [binding |-> 4, resource |->
            BufferVec_binding(m.vertices_buffer, m.id, "vertices_buffer")],
       [binding |-> 5, resource |->
            BufferVec_binding(m.normals_buffer, m.id, "normals_buffer")],
       [binding |-> 6, resource |->
            BufferVec_binding(m.indices_buffer, m.id, "indices_buffer")],
       [binding |-> 7, resource |->
            BufferVec_binding(m.uvs_buffer, m.id, "uvs_buffer")] >>

\* .expect(".. should have already been uploaded to the gpu") on every entry
BindGroupExpectsHold(m) ==
    \A i \in DOMAIN BindGroupEntries(m) : IsSome(BindGroupEntries(m)[i].resource)

\* GpuVoxelMaterialBindGroups::new (when no expect panics): the bind group,
\* each entry holding the handle of the buffer it references.
GpuVoxelMaterialBindGroups_new(m) ==
    [ i \in DOMAIN BindGroupEntries(m) |->
        [ binding |-> BindGroupEntries(m)[i].binding,
          resource |-> Unwrap(BindGroupEntries(m)[i].resource) ] ]

\* The handle a bind group holds at a binding index.
BoundAt(bind_group, index) ==
    bind_group[CHOOSE i \in DOMAIN bind_group : bind_group[i].binding = index].resource

\* -------------------------------------------------------------- state
VARIABLES
    world,                      \* main world: entity -> its components
    added,                      \* per system: entities with Added<Volumetric>
    receiver,                   \* "alive" | "dropped": MainWorldReceiver
    channel,                    \* crossbeam_channel::unbounded::<Vec<u32>>()
    sent,                       \* history: every message sent, in order
    received,                   \* history: every message receive() got
    pc,                         \* the step the GPU-execution domain is at
    round,                      \* rounds started
    ran,                        \* unordered extract systems run this round
    commands,                   \* deferred commands of the extract schedule
    render_world,               \* render world: entity -> component names
    gpu_voxel_materials,        \* VoxelMaterialComponents<GpuVoxelMaterial>
    voxel_material_bind_groups, \* VoxelMaterialComponents<GpuVoxelMaterialBindGroups>
    pipeline_ready,             \* PipelineCache holds the compiled program
    next_id,                    \* next device allocation id
    memory,                     \* device memory: allocation id -> contents
    encoder,                    \* what the node's last run encoded
    node_result,                \* "none" | "Ok": what the node's last run returned
    map_todo,                   \* volumes map_and_read_buffer has yet to visit
    handshake,                  \* what its last loop iteration did, in order
    failure                     \* "none", or the panic that aborted the process

vars == << world, added, receiver, channel, sent, received, pc, round, ran,
           commands, render_world, gpu_voxel_materials,
           voxel_material_bind_groups, pipeline_ready, next_id, memory,
           encoder, node_result, map_todo, handshake, failure >>

mainVars == << world, added, receiver, channel, received >>
renderVars == << pc, round, ran, commands, render_world, gpu_voxel_materials,
                 voxel_material_bind_groups, pipeline_ready, next_id, memory,
                 encoder, node_result, map_todo, handshake, sent, failure >>

\* The extract schedule borrows the main world: no main-world step runs then.
MainWorldRuns == pc \notin {"startup", "initialize", "extract_systems", "panicked"}

\* The render world sees the entities of the main world only through the
\* extract schedule: what the main world's frame did to them is taken as done
\* when the next extract is about to run.
BeforeExtract == pc = "extract_components"

\* The order in which a system visits the entities it allocates for.
EntityOrder(e) == IF e = GenEntity THEN 0 ELSE 1
Rank(e, S) == Cardinality({x \in S : EntityOrder(x) < EntityOrder(e)})

\* Allocation ids some resources entry or some bind group still references.
LiveIds(materials, bind_groups) ==
    {materials[e].id : e \in DOMAIN materials}
        \cup {bind_groups[e][i].resource.id :
                 e \in DOMAIN bind_groups, i \in DOMAIN bind_group_1_layout}

\* Device memory once buffers nothing references are freed and the buffers
\* of new allocations exist (zero-initialised).
Reallocate(mem, materials, bind_groups) ==
    [id \in LiveIds(materials, bind_groups) |->
        IF id \in DOMAIN mem THEN mem[id] ELSE FreshMemory]

Init ==
    /\ world = EmptyMap
    /\ added = [s \in {"initialize", "initialise"} |-> {}]
    /\ receiver = "alive"
    /\ channel = <<>>
    /\ sent = <<>>
    /\ received = <<>>
    /\ pc = "startup"
    /\ round = 0
    /\ ran = {}
    /\ commands = {}
    /\ render_world = EmptyMap
    /\ gpu_voxel_materials = EmptyMap
    /\ voxel_material_bind_groups = EmptyMap
    /\ pipeline_ready = FALSE
    /\ next_id = 1
    /\ memory = EmptyMap
    /\ encoder = {}
    /\ node_result = "none"
    /\ map_todo = {}
    /\ handshake = <<>>
    /\ failure = "none"

\* A panic: the process aborts with the given message.
Panic(message) == pc' = "panicked" /\ failure' = message

\* ------------------------------------------------ control domain steps
\* commands.spawn(bundle): the entity with its components; Volumetric is
\* newly added for every system that filters on Added<Volumetric>.
SpawnEntity(e, volumetric, material) ==
    /\ world' = MapInsert(world, e, [volumetric |-> volumetric, material |-> material,
                                     despawned |-> FALSE])
    /\ added' = IF volumetric THEN [s \in DOMAIN added |-> added[s] \cup {e}] ELSE added

\* VoxelMaterial::generate_random (Startup)
VoxelMaterial_generate_random ==
    /\ pc = "startup"
    /\ SpawnEntity(GenEntity, TRUE, Some(GeneratedMaterial))
    /\ pc' = "extract_components"
    /\ UNCHANGED << receiver, channel, sent, received, round, ran, commands,
                    render_world, gpu_voxel_materials, voxel_material_bind_groups,
                    pipeline_ready, next_id, memory, encoder, node_result, map_todo, failure >>
    /\ UNCHANGED handshake

\* A user of the plugin spawns a volume: VolumetricBundle::new(material), or
\* an entity holding only one of the two public components.
UserSpawn ==
    /\ BeforeExtract
    /\ UserEntity \notin DOMAIN world
    /\ \E volumetric \in BOOLEAN, material \in {None} \cup {Some(m) : m \in UserMaterials} :
          /\ volumetric \/ IsSome(material)
          /\ SpawnEntity(UserEntity, volumetric, material)
    /\ UNCHANGED << receiver, channel, received >>
    /\ UNCHANGED renderVars

\* A user inserts the component an entity lacks.
UserInsert ==
    /\ BeforeExtract
    /\ UserEntity \in DOMAIN world
    /\ ~world[UserEntity].despawned
    /\ \/ /\ ~world[UserEntity].volumetric
          /\ world' = [world EXCEPT ![UserEntity].volumetric = TRUE]
          /\ added' = [s \in DOMAIN added |-> added[s] \cup {UserEntity}]
       \/ /\ ~IsSome(world[UserEntity].material)
          /\ \E m \in UserMaterials :
                world' = [world EXCEPT ![UserEntity].material = Some(m)]
          /\ added' = added
    /\ UNCHANGED << receiver, channel, received >>
    /\ UNCHANGED renderVars

\* A user despawns the volume: the entity is gone from the control domain
\* with its components, and no query matches it again (its identifier is
\* not reused).
UserDespawn ==
    /\ BeforeExtract
    /\ UserEntity \in DOMAIN world
    /\ ~world[UserEntity].despawned
    /\ world' = [world EXCEPT ![UserEntity] =
                    [volumetric |-> FALSE, material |-> None, despawned |-> TRUE]]
    /\ added' = [s \in DOMAIN added |-> added[s] \ {UserEntity}]
    /\ UNCHANGED << receiver, channel, received >>
    /\ UNCHANGED renderVars

\* try_recv on the consumer half: Ok(data) when a message is queued.
TryRecv(ch) == IF ch = <<>> THEN None ELSE Some(Head(ch))

\* Mutant: the poll reads the head of the queue without removing it.
AfterTryRecv_peek(ch) == ch

\* Mutant: the poll drains the queue (try_iter) and keeps the first message.
AfterTryRecv_drain(ch) == <<>>

\* try_recv removes the message it returns.
AfterTryRecv(ch) == IF ch = <<>> THEN ch ELSE Tail(ch)

\* MainWorldReceiver::receive (Update)
MainWorldReceiver_receive ==
    /\ MainWorldRuns
    /\ receiver = "alive"
    /\ channel' = AfterTryRecv(channel)
    /\ received' = IF IsSome(TryRecv(channel))
                   THEN Append(received, Unwrap(TryRecv(channel)))
                   ELSE received
    /\ UNCHANGED << world, added, receiver >>
    /\ UNCHANGED renderVars

\* The application exits: the MainWorldReceiver resource is dropped while the
\* GPU-execution domain still holds the RenderWorldSender.
DropReceiver ==
    /\ MainWorldRuns
    /\ receiver = "alive"
    /\ receiver' = "dropped"
    /\ UNCHANGED << world, added, channel, received >>
    /\ UNCHANGED renderVars

\* ------------------------------------------- GPU-execution domain steps
\* Main-world entities a system's query matches.
WithMaterialAndVolumetric ==
    {e \in DOMAIN world : world[e].volumetric /\ IsSome(world[e].material)}

\* Mutant: the map is rebuilt from the entities the system visits, so the
\* entry of every other entity is dropped (retain).
InsertNewMaterials_retaining(targets) ==
    [e \in targets |->
        GpuVoxelMaterial_new(next_id + Rank(e, targets), Unwrap(world[e].material))]

\* Mutant: a volume that already has resources keeps its voxels buffer and
\* the voxels are pushed onto it again.
InsertNewMaterials_reusing(targets) ==
    [e \in (DOMAIN gpu_voxel_materials) \cup targets |->
        IF e \in targets
        THEN IF e \in DOMAIN gpu_voxel_materials
             THEN [GpuVoxelMaterial_new(next_id + Rank(e, targets),
                                        Unwrap(world[e].material))
                     EXCEPT !.voxels_buffer =
                         BufferVec_write_buffer(BufferVec_push_n(
                             gpu_voxel_materials[e].voxels_buffer,
                             Unwrap(world[e].material).nvoxels))]
             ELSE GpuVoxelMaterial_new(next_id + Rank(e, targets),
                                       Unwrap(world[e].material))
        ELSE gpu_voxel_materials[e]]

\* gpu_voxel_materials after a system ran GpuVoxelMaterial::new for every
\* entity of `targets` and inserted the result (the write_buffer of the empty
\* vertices_buffer that follows new() uploads nothing).
InsertNewMaterials(targets) ==
    [e \in (DOMAIN gpu_voxel_materials) \cup targets |->
        IF e \in targets
        THEN GpuVoxelMaterial_new(next_id + Rank(e, targets), Unwrap(world[e].material))
        ELSE gpu_voxel_materials[e]]

\* ExtractComponentPlugin::<Volumetric>: queues, for every main-world entity
\* with Volumetric, the insertion of Volumetric into the render world.
ExtractComponents ==
    /\ pc = "extract_components"
    /\ round < MaxRounds
    /\ round' = round + 1
    /\ commands' = commands \cup {e \in DOMAIN world : world[e].volumetric}
    /\ ran' = {}
    /\ pc' = "initialize"
    /\ UNCHANGED << world, added, receiver, channel, sent, received, render_world,
                    gpu_voxel_materials, voxel_material_bind_groups, pipeline_ready,
                    next_id, memory, encoder, node_result, map_todo, failure >>
    /\ UNCHANGED handshake

\* NonZeroU64::new_unchecked(chunk_size) in GpuVoxelMaterial::new is undefined
\* behaviour for chunk_size = 0: a build with the precondition check aborts,
\* any other goes on with a zero-sized staging buffer.
NewOutcomes(targets) ==
    IF \E e \in targets : Unwrap(world[e].material).chunk_size = 0
    THEN {"aborts", "returns"}
    ELSE {"returns"}

\* GpuVoxelMaterial::initialize: Query<(Entity, &VoxelMaterial), Added<Volumetric>>
GpuVoxelMaterial_initialize ==
    /\ pc = "initialize"
    /\ LET targets == added["initialize"] \cap WithMaterialAndVolumetric
       IN  \E outcome \in NewOutcomes(targets) :
             IF outcome = "aborts"
             THEN /\ Panic("NonZeroU64::new_unchecked requires a non-zero argument")
                  /\ UNCHANGED << gpu_voxel_materials, next_id, commands, memory, added >>
             ELSE /\ gpu_voxel_materials' = InsertNewMaterials(targets)
                  /\ next_id' = next_id + Cardinality(targets)
                  /\ commands' = commands \cup targets
                  /\ memory' = Reallocate(memory, gpu_voxel_materials',
                                          voxel_material_bind_groups)
                  /\ added' = [added EXCEPT !["initialize"] = {}]
                  /\ failure' = failure
                  /\ pc' = "extract_systems"
    /\ UNCHANGED << world, receiver, channel, sent, received, round, ran, render_world,
                    voxel_material_bind_groups, pipeline_ready, encoder, node_result,
                    map_todo >>
    /\ UNCHANGED handshake

\* Leaving the extract schedule once both unordered systems ran.
AfterExtractSystem(system) ==
    /\ ran' = ran \cup {system}
    /\ pc' = IF ran' = {"extract", "initialise"} THEN "apply_commands" ELSE pc

\* GpuVoxelMaterial::extract: Query<(Entity, &VoxelMaterial), With<Volumetric>>
GpuVoxelMaterial_extract ==
    /\ pc = "extract_systems"
    /\ "extract" \notin ran
    /\ \E outcome \in NewOutcomes(WithMaterialAndVolumetric) :
          IF outcome = "aborts"
          THEN /\ Panic("NonZeroU64::new_unchecked requires a non-zero argument")
               /\ UNCHANGED << gpu_voxel_materials, next_id, memory, ran >>
          ELSE /\ gpu_voxel_materials' = InsertNewMaterials(WithMaterialAndVolumetric)
               /\ next_id' = next_id + Cardinality(WithMaterialAndVolumetric)
               /\ memory' = Reallocate(memory, gpu_voxel_materials',
                                       voxel_material_bind_groups)
               /\ failure' = failure
               /\ AfterExtractSystem("extract")
    /\ UNCHANGED << world, added, receiver, channel, sent, received, round, commands,
                    render_world, voxel_material_bind_groups, pipeline_ready, encoder,
                    node_result, map_todo >>
    /\ UNCHANGED handshake

\* Mutant: the system visits every entity whose marker was added, with or
\* without descriptor, and for one without a resources entry it builds the
\* resources on the spot, binds them and stores only the bind group.
InsertNewBindGroups_without_resources(targets) ==
    [e \in (DOMAIN voxel_material_bind_groups) \cup targets \cup added["initialise"] |->
        IF e \in targets \cup added["initialise"]
        THEN IF e \in DOMAIN gpu_voxel_materials
             THEN GpuVoxelMaterialBindGroups_new(gpu_voxel_materials[e])
             ELSE GpuVoxelMaterialBindGroups_new(
                      GpuVoxelMaterial_new(0, VoxelMaterial(CHUNK_SZ, CHUNK_SZ_3)))
        ELSE voxel_material_bind_groups[e]]

\* voxel_material_bind_groups after a bind group was built and inserted for
\* every entity of `targets` that has a gpu_voxel_materials entry.
InsertNewBindGroups(targets) ==
    LET built == targets \cap DOMAIN gpu_voxel_materials
    IN  [e \in (DOMAIN voxel_material_bind_groups) \cup built |->
            IF e \in built
            THEN GpuVoxelMaterialBindGroups_new(gpu_voxel_materials[e])
            ELSE voxel_material_bind_groups[e]]

\* Some bind group a system is about to build panics on an expect.
BindGroupPanics(targets) ==
    \E e \in targets \cap DOMAIN gpu_voxel_materials :
        ~BindGroupExpectsHold(gpu_voxel_materials[e])

\* GpuVoxelMaterialBindGroups::initialise:
\* Extract<Query<Entity, (With<VoxelMaterial>, Added<Volumetric>)>>
GpuVoxelMaterialBindGroups_initialise ==
    /\ pc = "extract_systems"
    /\ "initialise" \notin ran
    /\ LET targets == added["initialise"] \cap WithMaterialAndVolumetric
       IN  IF BindGroupPanics(targets)
           THEN /\ Panic("buffer should have already been uploaded to the gpu")
                /\ UNCHANGED << voxel_material_bind_groups, memory, ran, added >>
           ELSE /\ voxel_material_bind_groups' = InsertNewBindGroups(targets)
                /\ failure' = failure
                /\ memory' = Reallocate(memory, gpu_voxel_materials,
                                        voxel_material_bind_groups')
                /\ added' = [added EXCEPT !["initialise"] = {}]
                /\ AfterExtractSystem("initialise")
    /\ UNCHANGED << world, receiver, channel, sent, received, round, commands,
                    render_world, gpu_voxel_materials, pipeline_ready, next_id,
                    encoder, node_result, map_todo >>
    /\ UNCHANGED handshake

\* RenderSet::ExtractCommands: the deferred commands of the extract schedule
\* are applied; each inserts Volumetric (and nothing else) for its entity.
ApplyExtractCommands ==
    /\ pc = "apply_commands"
    /\ render_world' = [e \in commands |-> {"Volumetric"}]
    /\ commands' = {}
    /\ pc' = "prepare"
    /\ UNCHANGED << world, added, receiver, channel, sent, received, round, ran,
                    gpu_voxel_materials, voxel_material_bind_groups, pipeline_ready,
                    next_id, memory, encoder, node_result, map_todo, failure >>
    /\ UNCHANGED handshake

\* Render-world entities the query of prepare matches:
\* Query<Entity, (With<VoxelMaterial>, With<Volumetric>)>, no Extract<..>.
PrepareQuery ==
    {e \in DOMAIN render_world : {"VoxelMaterial", "Volumetric"} \subseteq render_world[e]}

\* GpuVoxelMaterialBindGroups::prepare (RenderSet::PrepareBindGroups)
GpuVoxelMaterialBindGroups_prepare ==
    /\ pc = "prepare"
    /\ IF BindGroupPanics(PrepareQuery)
       THEN /\ Panic("buffer should have already been uploaded to the gpu")
            /\ UNCHANGED << voxel_material_bind_groups, memory >>
       ELSE /\ voxel_material_bind_groups' = InsertNewBindGroups(PrepareQuery)
            /\ failure' = failure
            /\ memory' = Reallocate(memory, gpu_voxel_materials,
                                    voxel_material_bind_groups')
            /\ pc' = "node"
    /\ UNCHANGED << world, added, receiver, channel, sent, received, round, ran,
                    commands, render_world, gpu_voxel_materials, pipeline_ready,
                    next_id, encoder, node_result, map_todo >>
    /\ UNCHANGED handshake

\* PipelineCache: the queued compute pipeline finishes compiling.
PipelineCompiled ==
    /\ pc = "node"
    /\ ~pipeline_ready
    /\ pipeline_ready' = TRUE
    /\ UNCHANGED << world, added, receiver, channel, sent, received, pc, round, ran,
                    commands, render_world, gpu_voxel_materials,
                    voxel_material_bind_groups, next_id, memory, encoder, node_result,
                    map_todo, failure >>
    /\ UNCHANGED handshake

\* ----------------------------------------------- VoxelMeshComputeNode
\* The compute program (shaders/gpu_readback.wgsl) run over one bind group:
\* it appends `appended` primitives through the two head counters bound at
\* slot 3 and writes the vertices buffer bound at slot 4.
ShaderDispatch(mem, bind_group, appended, r) ==
    LET atomics == BoundAt(bind_group, 3).id
        vertices == BoundAt(bind_group, 4).id
        counted == [mem EXCEPT ![atomics].vertices_head = @ + appended,
                               ![atomics].indices_head = @ + appended]
    IN  [counted EXCEPT ![vertices].vertices = r]

RECURSIVE RunDispatches(_, _, _, _)
\* The dispatches of one submission, volume after volume.
RunDispatches(mem, volumes, appended, r) ==
    IF volumes = {} THEN mem
    ELSE LET e == CHOOSE x \in volumes : \A y \in volumes : EntityOrder(x) <= EntityOrder(y)
         IN  RunDispatches(
                 ShaderDispatch(mem, voxel_material_bind_groups[e], appended[e], r),
                 volumes \ {e}, appended, r)

\* self.voxel_material_query: QueryState<Entity, With<Volumetric>> (render world)
NodeQuery == {e \in DOMAIN render_world : "Volumetric" \in render_world[e]}

\* The (Some(gpu_voxel_material), Some(voxel_bind_group)) arm of run
HasBoth(e) == e \in DOMAIN gpu_voxel_materials /\ e \in DOMAIN voxel_material_bind_groups

\* Mutant: a volume missing one of its two entries makes the node give up
\* the whole round instead of skipping that volume alone.
NodeDispatches_all_or_nothing ==
    IF \A e \in NodeQuery : HasBoth(e) THEN NodeQuery ELSE {}

\* The volumes run dispatches and copies for; every other volume is logged.
NodeDispatches == {e \in NodeQuery : HasBoth(e)}

\* (CHUNK_SZ as usize * std::mem::size_of::<Vec3>()) as u64
CopySize == CHUNK_SZ * VEC3_HOST_SIZE

\* The commands run encodes for one volume: the compute pass, then the copy.
\* heads: the counters bound at slot 3 as the dispatch begins.
DispatchCommand(e) ==
    [ op |-> "dispatch", entity |-> e,
      bind_group |-> voxel_material_bind_groups[e],
      workgroups |-> <<8, 8, 8>>,
      heads |-> LET a == memory[BoundAt(voxel_material_bind_groups[e], 3).id]
                IN  <<a.vertices_head, a.indices_head>> ]

CopyCommand(e) ==
    [ op |-> "copy", entity |-> e,
      source |-> BufferVec_binding(gpu_voxel_materials[e].vertices_buffer,
                                   gpu_voxel_materials[e].id, "vertices_buffer"),
      source_size |-> gpu_voxel_materials[e].vertices_buffer.capacity * VEC4_SIZE,
      destination |-> gpu_voxel_materials[e].id,
      destination_size |-> gpu_voxel_materials[e].vertices_staging_buffer.size,
      size |-> CopySize ]

\* copy_buffer_to_buffer is valid: the source exists (the expect) and the
\* range lies inside both buffers; otherwise the backend's validation aborts.
CopyIsValid(c) ==
    /\ IsSome(c.source)
    /\ c.size <= c.source_size
    /\ c.size <= c.destination_size

\* Mutant: the node takes the pipeline handle without asking the cache
\* whether the program is compiled.
get_compute_pipeline_unchecked == Some("pipeline")

\* The pipeline the node resolves: pipeline_cache.get_compute_pipeline(..)
get_compute_pipeline == IF pipeline_ready THEN Some("pipeline") ELSE None

\* VoxelMeshComputeNode::run, with the submission of what it encoded.
VoxelMeshComputeNode_run ==
    /\ pc = "node"
    /\ IF ~IsSome(get_compute_pipeline)
       THEN /\ encoder' = {}
            /\ node_result' = "Ok"
            /\ pc' = IF DOMAIN gpu_voxel_materials = {} THEN "cleanup" ELSE "map"
            /\ UNCHANGED << memory, gpu_voxel_materials, failure >>
       ELSE IF \E e \in NodeDispatches : ~CopyIsValid(CopyCommand(e))
       THEN /\ Panic("copy_buffer_to_buffer: validation error")
            /\ UNCHANGED << encoder, node_result, memory, gpu_voxel_materials >>
       ELSE /\ encoder' = {DispatchCommand(e) : e \in NodeDispatches}
                              \cup {CopyCommand(e) : e \in NodeDispatches}
            /\ node_result' = "Ok"
            /\ \E appended \in [NodeDispatches -> 0..MaxAppend] :
                  memory' = RunDispatches(memory, NodeDispatches, appended, round)
            /\ gpu_voxel_materials' =
                  [e \in DOMAIN gpu_voxel_materials |->
                      IF e \in NodeDispatches
                      THEN [gpu_voxel_materials[e] EXCEPT
                              !.vertices_staging_buffer.data =
                                  memory'[gpu_voxel_materials[e].id].vertices]
                      ELSE gpu_voxel_materials[e]]
            /\ failure' = failure
            /\ pc' = IF DOMAIN gpu_voxel_materials = {} THEN "cleanup" ELSE "map"
    /\ map_todo' = IF pc' = "map" THEN DOMAIN gpu_voxel_materials ELSE {}
    /\ UNCHANGED << world, added, receiver, channel, sent, received, round, ran,
                    commands, render_world, voxel_material_bind_groups,
                    pipeline_ready, next_id >>
    /\ UNCHANGED handshake

\* ---------------------------------------------------- RenderWorldSender
\* Mutant: the channel is bounded(1) and a send to a full channel is dropped.
ChannelSend_bounded(ch, message) == IF Len(ch) >= 1 THEN ch ELSE Append(ch, message)

\* sender.send(data) on an unbounded channel: queues the message.
ChannelSend(ch, message) == Append(ch, message)

\* buffer_view.chunks(4).map(u32::from_ne_bytes): the mapped staging bytes
\* as one message (entity and round are history, not part of the Vec<u32>).
ReadbackMessage(e) ==
    [ entity |-> e, round |-> round,
      data |-> gpu_voxel_materials[e].vertices_staging_buffer.data ]

\* Mutant: the loop never unmaps: the staging buffer stays mapped after the
\* message is sent.
MapAndReadVolume_no_unmap(e, map_result) ==
    IF map_result = "Err"
    THEN /\ Panic("Failed to map buffer")
         /\ UNCHANGED << gpu_voxel_materials, channel, sent, map_todo >>
    ELSE IF receiver # "alive"
    THEN /\ Panic("Failed to send data to main world")
         /\ gpu_voxel_materials' = [gpu_voxel_materials EXCEPT
                                      ![e].vertices_staging_buffer.mapped = TRUE]
         /\ UNCHANGED << channel, sent, map_todo >>
    ELSE /\ channel' = Append(channel, [entity |-> e, round |-> round, data |->
                             gpu_voxel_materials[e].vertices_staging_buffer.data])
         /\ sent' = Append(sent, [entity |-> e, round |-> round, data |->
                             gpu_voxel_materials[e].vertices_staging_buffer.data])
         /\ gpu_voxel_materials' = [gpu_voxel_materials EXCEPT
                                      ![e].vertices_staging_buffer.mapped = TRUE]
         /\ map_todo' = map_todo \ {e}
         /\ failure' = failure
         /\ pc' = IF map_todo' = {} THEN "cleanup" ELSE "map"

\* Mutant: the loop sends a message only for a volume whose staging buffer
\* received a copy in this round and passes over every other volume.
MapAndReadVolume_only_copied(e, map_result) ==
    IF \A c \in encoder : ~(c.op = "copy" /\ c.entity = e)
    THEN /\ map_todo' = map_todo \ {e}
         /\ pc' = IF map_todo' = {} THEN "cleanup" ELSE "map"
         /\ UNCHANGED << gpu_voxel_materials, channel, sent, failure >>
    ELSE IF map_result = "Err"
    THEN /\ Panic("Failed to map buffer")
         /\ UNCHANGED << gpu_voxel_materials, channel, sent, map_todo >>
    ELSE IF receiver # "alive"
    THEN /\ Panic("Failed to send data to main world")
         /\ gpu_voxel_materials' = [gpu_voxel_materials EXCEPT
                                      ![e].vertices_staging_buffer.mapped = TRUE]
         /\ UNCHANGED << channel, sent, map_todo >>
    ELSE /\ channel' = Append(channel, [entity |-> e, round |-> round, data |->
                             gpu_voxel_materials[e].vertices_staging_buffer.data])
         /\ sent' = Append(sent, [entity |-> e, round |-> round, data |->
                             gpu_voxel_materials[e].vertices_staging_buffer.data])
         /\ gpu_voxel_materials' = [gpu_voxel_materials EXCEPT
                                      ![e].vertices_staging_buffer.mapped = FALSE]
         /\ map_todo' = map_todo \ {e}
         /\ failure' = failure
         /\ pc' = IF map_todo' = {} THEN "cleanup" ELSE "map"

\* Mutant: a failed send is ignored (let _ = sender.send(data)) and the loop
\* goes on to the next volume.
MapAndReadVolume_ignore_send_error(e, map_result) ==
    IF map_result = "Err"
    THEN /\ Panic("Failed to map buffer")
         /\ UNCHANGED << gpu_voxel_materials, channel, sent, map_todo >>
    ELSE /\ channel' = IF receiver = "alive"
                       THEN Append(channel, [entity |-> e, round |-> round, data |->
                               gpu_voxel_materials[e].vertices_staging_buffer.data])
                       ELSE channel
         /\ sent' = IF receiver = "alive"
                    THEN Append(sent, [entity |-> e, round |-> round, data |->
                               gpu_voxel_materials[e].vertices_staging_buffer.data])
                    ELSE sent
         /\ gpu_voxel_materials' = [gpu_voxel_materials EXCEPT
                                      ![e].vertices_staging_buffer.mapped = FALSE]
         /\ map_todo' = map_todo \ {e}
         /\ failure' = failure
         /\ pc' = IF map_todo' = {} THEN "cleanup" ELSE "map"

\* Mutant: the staging buffer is unmapped before its bytes are read.
HandshakeOps_unmap_first(map_result, send_result) ==
    IF map_result = "Err"
    THEN << "map_async", "poll", "callback_err" >>
    ELSE IF send_result = "Err"
    THEN << "map_async", "poll", "callback_ok", "recv", "unmap", "get_mapped_range",
            "send_err" >>
    ELSE << "map_async", "poll", "callback_ok", "recv", "unmap", "get_mapped_range",
            "send" >>

\* The operations of one loop iteration in program order, up to the panic
\* if there is one: map_async, poll(Maintain::Wait) during which the callback
\* runs, recv of the callback's message, get_mapped_range with the
\* conversion, send, unmap.
HandshakeOps(map_result, send_result) ==
    IF map_result = "Err"
    THEN << "map_async", "poll", "callback_err" >>
    ELSE IF send_result = "Err"
    THEN << "map_async", "poll", "callback_ok", "recv", "get_mapped_range",
            "send_err" >>
    ELSE << "map_async", "poll", "callback_ok", "recv", "get_mapped_range",
            "send", "unmap" >>

\* One iteration of the loop of RenderWorldSender::map_and_read_buffer:
\* map_async, poll(Maintain::Wait), the callback's result, the read, the
\* send, the unmap. A mapping error and a failed send panic.
MapAndReadVolume(e, map_result) ==
    IF map_result = "Err"
    THEN /\ Panic("Failed to map buffer")
         /\ UNCHANGED << gpu_voxel_materials, channel, sent, map_todo >>
    ELSE IF receiver # "alive"
    THEN /\ Panic("Failed to send data to main world")
         /\ gpu_voxel_materials' = [gpu_voxel_materials EXCEPT
                                      ![e].vertices_staging_buffer.mapped = TRUE]
         /\ UNCHANGED << channel, sent, map_todo >>
    ELSE /\ channel' = ChannelSend(channel, ReadbackMessage(e))
         /\ sent' = Append(sent, ReadbackMessage(e))
         /\ gpu_voxel_materials' = [gpu_voxel_materials EXCEPT
                                      ![e].vertices_staging_buffer.mapped = FALSE]
         /\ map_todo' = map_todo \ {e}
         /\ failure' = failure
         /\ pc' = IF map_todo' = {} THEN "cleanup" ELSE "map"

RenderWorldSender_map_and_read_buffer ==
    /\ pc = "map"
    /\ \E e \in map_todo, map_result \in {"Ok", "Err"} :
          /\ MapAndReadVolume(e, map_result)
          /\ handshake' = [ entity |-> e,
                            ops |-> HandshakeOps(map_result,
                                       IF receiver = "alive" THEN "Ok" ELSE "Err") ]
    /\ UNCHANGED << world, added, receiver, received, round, ran, commands,
                    render_world, voxel_material_bind_groups, pipeline_ready,
                    next_id, memory, encoder, node_result >>

\* RenderSet::Cleanup: World::clear_entities on the render world.
ClearEntities ==
    /\ pc = "cleanup"
    /\ render_world' = EmptyMap
    /\ pc' = "extract_components"
    /\ UNCHANGED << world, added, receiver, channel, sent, received, round, ran,
                    commands, gpu_voxel_materials, voxel_material_bind_groups,
                    pipeline_ready, next_id, memory, encoder, node_result, map_todo, failure >>
    /\ UNCHANGED handshake

Next ==
    \/ VoxelMaterial_generate_random
    \/ UserSpawn
    \/ UserInsert
    \/ UserDespawn
    \/ MainWorldReceiver_receive
    \/ DropReceiver
    \/ ExtractComponents
    \/ GpuVoxelMaterial_initialize
    \/ GpuVoxelMaterial_extract
    \/ GpuVoxelMaterialBindGroups_initialise
    \/ ApplyExtractCommands
    \/ GpuVoxelMaterialBindGroups_prepare
    \/ PipelineCompiled
    \/ VoxelMeshComputeNode_run
    \/ RenderWorldSender_map_and_read_buffer
    \/ ClearEntities

Spec == Init /\ [][Next]_vars

\* The steps of the GPU-execution domain: the render sub-app runs its
\* schedules once per frame, frame after frame, until the process aborts.
RenderNext ==
    \/ ExtractComponents
    \/ GpuVoxelMaterial_initialize
    \/ GpuVoxelMaterial_extract
    \/ GpuVoxelMaterialBindGroups_initialise
    \/ ApplyExtractCommands
    \/ GpuVoxelMaterialBindGroups_prepare
    \/ VoxelMeshComputeNode_run
    \/ RenderWorldSender_map_and_read_buffer
    \/ ClearEntities

\* The app runner keeps running frames: Startup runs, the render schedules
\* keep being run, and Update keeps polling while the receiver lives.
FairSpec ==
    /\ Spec
    /\ WF_vars(VoxelMaterial_generate_random)
    /\ WF_vars(RenderNext)
    /\ WF_vars(MainWorldReceiver_receive)

\* ============================================================== claims
\* The producer step of the current round has visited every volume.
RoundCompleted == pc \in {"cleanup", "extract_components"} /\ round > 0

\* The node ran in the current round and the round has not ended.
NodeRanThisRound == pc \in {"map", "cleanup"}

CommandsFor(e, op) == {c \in encoder : c.entity = e /\ c.op = op}

\* C1 (readback delivery): with a single volume, once a round has completed
\* (dispatch, copy, map, send) exactly one message per completed round has
\* been sent, the message of round i being the i-th; what the polls received so
\* far followed by what is still queued is exactly what was sent, so one
\* round's message is received once and further polls receive nothing.
C1_ReadbackDelivery ==
    (RoundCompleted /\ DOMAIN gpu_voxel_materials = {GenEntity}) =>
        /\ Len(sent) = round
        /\ \A i \in 1..Len(sent) : sent[i].entity = GenEntity /\ sent[i].round = i
        /\ received \o channel = sent
        /\ Len(received) <= round

\* One round has run in full for the single volume, the poll received its
\* message and nothing is left to receive.
C1_Witness ==
    /\ round = 1 /\ pc = "cleanup"
    /\ DOMAIN gpu_voxel_materials = {GenEntity}
    /\ CommandsFor(GenEntity, "dispatch") # {}
    /\ CommandsFor(GenEntity, "copy") # {}
    /\ Len(received) = 1
    /\ channel = <<>>

\* C2 (binding set rebuilt with the resources): whenever the node dispatches
\* for a volume, every slot of the bind group it binds references a buffer of
\* the resources currently stored for that volume; in particular the vertices
\* buffer the dispatch writes (slot 4) is the buffer the copy reads.
C2_BindGroupTracksResources ==
    \A d \in encoder : \A c \in encoder :
        (d.op = "dispatch" /\ c.op = "copy" /\ d.entity = c.entity) =>
            /\ \A i \in DOMAIN d.bind_group : d.bind_group[i].resource.id = c.destination
            /\ Some(BoundAt(d.bind_group, 4)) = c.source

\* A step of VoxelMeshComputeNode::run (the only step that leaves "node").
NodeStep == pc = "node" /\ pc' # "node"

\* A volume the node knows with exactly one of its two per-volume entries.
MissingOne(e) ==
    (e \in DOMAIN gpu_voxel_materials) # (e \in DOMAIN voxel_material_bind_groups)

\* C3 (skip on missing state): when the node runs with the program ready and
\* some volume it knows has resources but no bind group (or the reverse), it
\* encodes neither a dispatch nor a copy for that volume, encodes both for
\* every volume that has both entries, and returns Ok without aborting.
C3_SkipOnMissingState ==
    [][ (NodeStep /\ pipeline_ready /\ \E e \in NodeQuery : MissingOne(e)) =>
            /\ pc' # "panicked"
            /\ node_result' = "Ok"
            /\ \A e \in NodeQuery : \A c \in encoder' : MissingOne(e) => c.entity # e
            /\ \A e \in NodeQuery :
                  (e \in DOMAIN gpu_voxel_materials
                        /\ e \in DOMAIN voxel_material_bind_groups) =>
                      /\ \E c \in encoder' : c.entity = e /\ c.op = "dispatch"
                      /\ \E c \in encoder' : c.entity = e /\ c.op = "copy" ]_vars

\* The node has just run with the program ready: the user's volume has
\* resources and no bind group and was skipped, the generated volume was
\* dispatched and copied.
C3_Witness ==
    /\ pc = "map" /\ pipeline_ready /\ node_result = "Ok"
    /\ UserEntity \in NodeQuery
    /\ UserEntity \in DOMAIN gpu_voxel_materials
    /\ UserEntity \notin DOMAIN voxel_material_bind_groups
    /\ \A c \in encoder : c.entity # UserEntity
    /\ CommandsFor(GenEntity, "dispatch") # {}
    /\ CommandsFor(GenEntity, "copy") # {}

\* C4 (pipeline not ready): when the node runs while the pipeline cache does
\* not hold the compiled program, it encodes nothing, returns Ok without
\* aborting, and leaves the resources map, the bind group map and the device
\* memory unchanged.
C4_PipelineNotReadyDefers ==
    [][ (NodeStep /\ ~pipeline_ready) =>
            /\ encoder' = {}
            /\ node_result' = "Ok"
            /\ pc' # "panicked"
            /\ UNCHANGED << gpu_voxel_materials, voxel_material_bind_groups, memory >>
      ]_vars

\* The node has just run without the program for a volume that has both of
\* its entries: nothing was encoded and the round goes on.
C4_Witness ==
    /\ pc = "map" /\ ~pipeline_ready /\ node_result = "Ok"
    /\ GenEntity \in NodeQuery /\ HasBoth(GenEntity)
    /\ encoder = {}

\* C5 (the poll never blocks): receive can run whenever the control domain
\* runs, whatever the channel holds; a step that takes anything out of the
\* channel takes exactly its head and hands it to the consumer; a poll of the
\* empty channel leaves the channel and what was received unchanged.
C5_PollNeverBlocks ==
    /\ []((MainWorldRuns /\ receiver = "alive") => ENABLED MainWorldReceiver_receive)
    /\ [][ /\ (received' # received \/ Len(channel') < Len(channel)) =>
                 /\ channel # <<>>
                 /\ channel' = Tail(channel)
                 /\ received' = Append(received, Head(channel))
           /\ (MainWorldReceiver_receive /\ channel = <<>>) =>
                 UNCHANGED << channel, received >> ]_vars

\* A poll has taken one message while others stayed queued.
C5_Witness ==
    /\ Len(received) = 1
    /\ Len(channel) >= 2
    /\ received \o channel = sent

\* C6 (no backpressure, no loss): every handshake that completes queues its
\* message whatever the number of unconsumed messages; the channel holds
\* exactly the messages sent and not yet received (length = sent - received);
\* what was received is a prefix of what was sent, in the order sent.
C6_ChannelLossless ==
    /\ [](/\ received \o channel = sent
          /\ Len(channel) = Len(sent) - Len(received))
    /\ [][ (pc = "map" /\ map_todo' # map_todo) =>
              \E e \in map_todo :
                  /\ sent' = Append(sent, ReadbackMessage(e))
                  /\ Len(channel') = Len(channel) + 1
                  /\ channel'[Len(channel')] = ReadbackMessage(e) ]_vars

\* Three messages wait unconsumed behind one that was received.
C6_Witness ==
    /\ Len(channel) >= 3
    /\ Len(received) >= 1
    /\ Len(sent) = 4

\* The panics of the readback handshake.
HandshakeFailures == {"Failed to map buffer", "Failed to send data to main world"}

\* C7 (failure policy of the handshake): a step of the producer taken while
\* the consumer half is dropped, and any step that reports a mapping error or
\* a failed send, aborts the process there and sends nothing; once aborted,
\* nothing is sent or retried and no later round starts.
C7_HandshakeFailureAborts ==
    [][ /\ (/\ pc = "map" /\ receiver # "alive"
            /\ << pc, map_todo, sent, gpu_voxel_materials >>'
                  # << pc, map_todo, sent, gpu_voxel_materials >>) =>
               /\ pc' = "panicked"
               /\ failure' \in HandshakeFailures
               /\ UNCHANGED << sent, channel, map_todo >>
        /\ (failure = "none" /\ failure' \in HandshakeFailures) =>
               /\ pc = "map" /\ pc' = "panicked"
               /\ UNCHANGED << sent, channel, map_todo >>
        /\ (pc = "panicked") =>
               /\ pc' = "panicked"
               /\ UNCHANGED << sent, channel, round, map_todo, failure >> ]_vars

\* The send failed in the first round, after a message had already been sent
\* in it: the process is aborted with rounds still to run.
C7_Witness ==
    /\ pc = "panicked"
    /\ failure = "Failed to send data to main world"
    /\ receiver = "dropped"
    /\ round = 1 /\ round < MaxRounds
    /\ Len(sent) = 1
    /\ map_todo # {}

\* C8 (atomic counters reset every round): whenever the node encodes the
\* dispatch of a volume, both counters of the atomics buffer bound at slot 3
\* of the volume's bind group are zero as the dispatch begins.
C8_CountersZeroAtDispatch ==
    \A d \in encoder : d.op = "dispatch" => d.heads = <<0, 0>>

\* C9 (capacity invariant): every resources entry built from a descriptor
\* with chunk_size > 0 has at least chunk_size elements reserved for the
\* voxels buffer before the voxels are pushed, at least chunk_size * 24
\* elements reserved for each of the vertices, normals, uvs and indices
\* buffers, and no more voxels pushed than were reserved.
C9_CapacityInvariant ==
    \A e \in DOMAIN gpu_voxel_materials :
        LET m == gpu_voxel_materials[e]
        IN  m.chunk_size > 0 =>
              /\ m.voxels_reserved >= m.chunk_size
              /\ m.vertices_buffer.capacity >= m.chunk_size * 24
              /\ m.normals_buffer.capacity >= m.chunk_size * 24
              /\ m.uvs_buffer.capacity >= m.chunk_size * 24
              /\ m.indices_buffer.capacity >= m.chunk_size * 24
              /\ m.voxels_buffer.len <= m.voxels_reserved

\* The buffer of the resources each slot is to reference, in slot order:
\* edgeTable, triangleTable, voxels, atomics, vertices, normals, indices, uvs.
SlotOrder ==
    << "edge_table_buffer", "tri_table_buffer", "voxels_buffer", "atomics_buffer",
       "vertices_buffer", "normals_buffer", "indices_buffer", "uvs_buffer" >>

\* The shader type the pipeline's layout declares for the data of a buffer.
ShaderTypeOf(field) ==
    CASE field = "edge_table_buffer" -> "EdgeTable"
      [] field = "tri_table_buffer"  -> "TriangleTable"
      [] field = "voxels_buffer"     -> "VoxelBuffer"
      [] field = "atomics_buffer"    -> "Atomics"
      [] field = "vertices_buffer"   -> "VertexBuffer"
      [] field = "normals_buffer"    -> "NormalBuffer"
      [] field = "indices_buffer"    -> "IndexBuffer"
      [] field = "uvs_buffer"        -> "UvBuffer"

\* Every buffer of the resources exists on the device.
BuffersCreated(m) == \A i \in DOMAIN SlotOrder : m[SlotOrder[i]].buffer

\* C10 (binding completeness): for every resources entry whose buffers
\* exist on the device, GpuVoxelMaterialBindGroups::new builds exactly 8
\* entries, the i-th at binding i-1 and referencing the i-th buffer of the
\* slot order in that entry's allocation, a buffer of non-zero capacity,
\* and binding index and shader type agree slot for slot with the
\* pipeline's layout; every stored bind group has that shape and
\* references live allocations only.
C10_BindingCompleteness ==
    /\ Len(bind_group_1_layout) = 8
    /\ \A e \in DOMAIN gpu_voxel_materials :
          LET m == gpu_voxel_materials[e]
              bg == GpuVoxelMaterialBindGroups_new(m)
          IN  BuffersCreated(m) =>
                /\ BindGroupExpectsHold(m)
                /\ DOMAIN bg = 1..8
                /\ \A i \in 1..8 :
                      /\ bg[i].binding = i - 1
                      /\ bg[i].resource = [id |-> m.id, field |-> SlotOrder[i]]
                      /\ m[SlotOrder[i]].capacity > 0
                      /\ bind_group_1_layout[i].binding = bg[i].binding
                      /\ bind_group_1_layout[i].ty = ShaderTypeOf(bg[i].resource.field)
    /\ \A e \in DOMAIN voxel_material_bind_groups :
          LET bg == voxel_material_bind_groups[e]
          IN  /\ DOMAIN bg = 1..8
              /\ \A i \in 1..8 :
                    /\ bg[i].binding = i - 1
                    /\ bg[i].resource.field = SlotOrder[i]
                    /\ bg[i].resource.id \in DOMAIN memory
                    /\ bg[i].resource.id = bg[1].resource.id
                    /\ bind_group_1_layout[i].ty = ShaderTypeOf(bg[i].resource.field)

\* Both volumes have resources with every buffer created and a bind group
\* built from resources.
C10_Witness ==
    /\ DOMAIN voxel_material_bind_groups = Entity
    /\ DOMAIN gpu_voxel_materials = Entity
    /\ \A e \in Entity : BuffersCreated(gpu_voxel_materials[e])
    /\ gpu_voxel_materials[GenEntity].chunk_size # gpu_voxel_materials[UserEntity].chunk_size

\* Two resources agree in every buffer: capacity, length, existence on the
\* device and uploaded contents (the allocation id and the state of the
\* staging buffer are not compared).
SameBuffers(a, b) ==
    /\ a.chunk_size = b.chunk_size
    /\ a.voxels_reserved = b.voxels_reserved
    /\ a.vertices_staging_buffer.size = b.vertices_staging_buffer.size
    /\ \A i \in DOMAIN SlotOrder : a[SlotOrder[i]] = b[SlotOrder[i]]

\* The descriptor a resources entry was built from is the given one.
BuiltFrom(m, voxel_material) ==
    /\ m.chunk_size = voxel_material.chunk_size
    /\ m.voxels_buffer.len = voxel_material.nvoxels

\* A step of GpuVoxelMaterial::extract.
ExtractStep == pc = "extract_systems" /\ "extract" \notin ran /\ "extract" \in ran'

\* C11 (round idempotence under static input): GpuVoxelMaterial::new builds
\* the same buffers from the same descriptor whatever the allocation, and
\* when extract replaces the resources of a volume whose descriptor is the
\* one the previous resources were built from, the new resources agree
\* with the previous ones in every buffer's capacity and uploaded contents.
C11_RoundIdempotence ==
    /\ [](\A e \in WithMaterialAndVolumetric :
             SameBuffers(GpuVoxelMaterial_new(next_id, Unwrap(world[e].material)),
                         GpuVoxelMaterial_new(next_id + 1, Unwrap(world[e].material))))
    /\ [][ ExtractStep =>
             \A e \in WithMaterialAndVolumetric \cap DOMAIN gpu_voxel_materials :
                 BuiltFrom(gpu_voxel_materials[e], Unwrap(world[e].material)) =>
                     /\ gpu_voxel_materials'[e].id # gpu_voxel_materials[e].id
                     /\ SameBuffers(gpu_voxel_materials'[e], gpu_voxel_materials[e])
         ]_vars

\* extract of the second round has replaced the resources both volumes got
\* from extract of the first round.
C11_Witness ==
    /\ round = 2 /\ "extract" \in ran
    /\ DOMAIN gpu_voxel_materials = Entity
    /\ \A e \in Entity : gpu_voxel_materials[e].id >= 4

\* C12 (creation fails fatally on a zero chunk_size): no resources entry is
\* ever built from a descriptor whose chunk_size is zero, and no bind group
\* is held for a volume with such a descriptor.
C12_ZeroChunkSizeRejected ==
    /\ \A e \in DOMAIN gpu_voxel_materials : gpu_voxel_materials[e].chunk_size # 0
    /\ \A e \in DOMAIN voxel_material_bind_groups \cap WithMaterialAndVolumetric :
          Unwrap(world[e].material).chunk_size # 0

\* C13 (strict per-round pipeline order): once the node has run in a round,
\* every volume it dispatched had its resources refreshed in this round and
\* its bind group built after that refresh (from the refreshed resources),
\* and its copy follows its dispatch; the producer visits volumes only after
\* the node has run, and every message of a round is sent before the next
\* round's refresh.
C13_StrictRoundOrder ==
    /\ NodeRanThisRound =>
          \A d \in encoder :
              /\ d.op = "dispatch" =>
                    /\ d.entity \in DOMAIN gpu_voxel_materials
                    /\ \A i \in DOMAIN d.bind_group :
                          d.bind_group[i].resource.id = gpu_voxel_materials[d.entity].id
                    /\ CommandsFor(d.entity, "copy") # {}
              /\ d.op = "copy" => CommandsFor(d.entity, "dispatch") # {}
    /\ map_todo # {} => pc \in {"map", "panicked"}
    /\ \A i \in DOMAIN sent :
          /\ sent[i].round <= round
          /\ sent[i].round = round => pc \in {"map", "cleanup", "extract_components",
                                               "panicked"}

\* C14 (order of the map-state mutations is determined): within a round the
\* bind step (bind-group initialise) runs only after the refresh (extract),
\* so at the end of the first extraction phase the bind group of the
\* generated volume references the resources the volume then holds,
\* whichever of the unordered systems the scheduler ran first.
C14_ExtractionOrderDetermined ==
    /\ "initialise" \in ran => "extract" \in ran
    /\ (round = 1 /\ pc = "apply_commands" /\ HasBoth(GenEntity)) =>
          \A i \in DOMAIN voxel_material_bind_groups[GenEntity] :
              voxel_material_bind_groups[GenEntity][i].resource.id
                  = gpu_voxel_materials[GenEntity].id

\* The node ran in this round and encoded no dispatch for a volume it
\* knows whose descriptor and marker are both present.
Skipped(e) ==
    /\ NodeRanThisRound
    /\ e \in NodeQuery \cap WithMaterialAndVolumetric
    /\ CommandsFor(e, "dispatch") = {}

\* The node ran in this round and encoded the dispatch and the copy of a volume.
Dispatched(e) ==
    /\ NodeRanThisRound
    /\ CommandsFor(e, "dispatch") # {}
    /\ CommandsFor(e, "copy") # {}

Pos(ops, op) ==
    IF \E i \in DOMAIN ops : ops[i] = op
    THEN CHOOSE i \in DOMAIN ops : ops[i] = op
    ELSE 0

\* Operation `later` happened only after operation `earlier` had.
OnlyAfter(ops, later, earlier) ==
    Pos(ops, later) # 0 => (Pos(ops, earlier) # 0 /\ Pos(ops, earlier) < Pos(ops, later))

\* C16 (producer handshake order per volume): in every loop iteration of
\* map_and_read_buffer the mapping is requested, then the domain waits for
\* the device and for the callback's success, only then the staging bytes
\* are read, at most one message is sent, and then the buffer is unmapped;
\* the bytes are read only while the buffer is mapped; an iteration that
\* completes has sent exactly one message and unmapped the buffer, and no
\* staging buffer is mapped when the next iteration begins.
C16_HandshakeOrder ==
    /\ [](handshake # <<>> =>
            LET ops == handshake.ops
            IN  /\ Pos(ops, "map_async") = 1
                /\ OnlyAfter(ops, "poll", "map_async")
                /\ OnlyAfter(ops, "callback_ok", "poll")
                /\ OnlyAfter(ops, "recv", "callback_ok")
                /\ OnlyAfter(ops, "get_mapped_range", "recv")
                /\ OnlyAfter(ops, "send", "get_mapped_range")
                /\ OnlyAfter(ops, "unmap", "send")
                /\ Pos(ops, "unmap") # 0 => Pos(ops, "unmap") > Pos(ops, "get_mapped_range")
                /\ Cardinality({i \in DOMAIN ops : ops[i] = "send"}) <= 1)
    /\ [](pc # "panicked" =>
            \A e \in DOMAIN gpu_voxel_materials :
                ~gpu_voxel_materials[e].vertices_staging_buffer.mapped)
    /\ [][ (pc = "map" /\ map_todo' # map_todo) =>
              /\ map_todo \ map_todo' = {handshake'.entity}
              /\ handshake'.ops[Len(handshake'.ops)] = "unmap"
              /\ Pos(handshake'.ops, "send") # 0
              /\ Len(sent') = Len(sent) + 1
              /\ sent'[Len(sent')].entity = handshake'.entity
              /\ ~gpu_voxel_materials'[handshake'.entity].vertices_staging_buffer.mapped
         ]_vars

\* The handshake of one volume has completed with its unmap and the other
\* volume's has yet to begin.
C16_Witness ==
    /\ pc = "map" /\ map_todo # {} /\ handshake # <<>>
    /\ handshake.entity \in DOMAIN gpu_voxel_materials \ map_todo
    /\ handshake.ops[Len(handshake.ops)] = "unmap"
    /\ Len(sent) >= 1 /\ sent[Len(sent)].entity = handshake.entity
    /\ sent[Len(sent)].round = round

\* The messages sent in the current round, by their place in the history.
SentThisRound == {i \in DOMAIN sent : sent[i].round = round}

\* C17 (one message per resources entry and round): while the producer
\* step runs it has sent one message for each entry it has visited, and
\* once it has run in a round the messages sent in that round are one per
\* entry of the resources map, so their number is the number of volumes
\* the map holds.
C17_OneMessagePerEntry ==
    /\ pc = "map" =>
          /\ Cardinality(SentThisRound)
                = Cardinality(DOMAIN gpu_voxel_materials \ map_todo)
          /\ {sent[i].entity : i \in SentThisRound} = DOMAIN gpu_voxel_materials \ map_todo
    /\ RoundCompleted =>
          /\ Cardinality(SentThisRound) = Cardinality(DOMAIN gpu_voxel_materials)
          /\ {sent[i].entity : i \in SentThisRound} = DOMAIN gpu_voxel_materials

\* The producer step has run in the second round over two volumes of which
\* the node dispatched none, and two messages were sent in the round.
C17_Witness ==
    /\ pc = "cleanup" /\ round = 2
    /\ DOMAIN gpu_voxel_materials = Entity
    /\ encoder = {}
    /\ Cardinality(SentThisRound) = 2
    /\ Len(sent) >= 3

\* C18 (a message only after a copy): every message sent in a round is
\* sent for a volume whose vertices buffer was copied into its staging
\* buffer by the node in that same round.
C18_MessageOnlyAfterCopy ==
    NodeRanThisRound =>
        \A i \in SentThisRound : CommandsFor(sent[i].entity, "copy") # {}

\* C19 (size of the copy): every copy the node encodes transfers
\* chunk_size * 16 bytes, chunk_size being that of the volume's descriptor
\* and 16 the element size of its vertices buffer, and that count exceeds
\* neither the size of the source vertices buffer nor that of the
\* destination staging buffer, so no copy is rejected.
C19_CopySize ==
    /\ \A c \in encoder :
          c.op = "copy" =>
              /\ c.size = gpu_voxel_materials[c.entity].chunk_size * VEC4_SIZE
              /\ c.size <= c.source_size
              /\ c.size <= c.destination_size
    /\ failure # "copy_buffer_to_buffer: validation error"

\* C20 (resource lifecycle): once initialize has run in a round, every
\* volume the domain knows (descriptor and marker present) has resources,
\* those of a volume first observed in this round created by initialize;
\* once extract has run in a round, every known volume holds resources
\* built from its descriptor as it is in this round.
C20_ResourceLifecycle ==
    /\ (pc = "extract_systems" /\ ran = {}) =>
          \A e \in WithMaterialAndVolumetric : e \in DOMAIN gpu_voxel_materials
    /\ (\/ pc = "extract_systems" /\ "extract" \in ran
        \/ pc \in {"apply_commands", "prepare", "node", "map", "cleanup"}) =>
          \A e \in WithMaterialAndVolumetric :
              /\ e \in DOMAIN gpu_voxel_materials
              /\ BuiltFrom(gpu_voxel_materials[e], Unwrap(world[e].material))

\* C21 (bind groups only for volumes with resources): in every state the
\* volumes that have a bind group are among those that have a resources
\* entry; a step inserts a bind group for a volume only if the volume has a
\* resources entry before the step, and no step removes a resources entry.
C21_BindGroupsWithinResources ==
    /\ [](DOMAIN voxel_material_bind_groups \subseteq DOMAIN gpu_voxel_materials)
    /\ [][ /\ (DOMAIN voxel_material_bind_groups' \ DOMAIN voxel_material_bind_groups)
                 \subseteq DOMAIN gpu_voxel_materials
           /\ DOMAIN gpu_voxel_materials \subseteq DOMAIN gpu_voxel_materials' ]_vars

\* The generated volume has both entries; the user's volume, whose marker
\* was there before its descriptor, has resources and no bind group.
C21_Witness ==
    /\ DOMAIN voxel_material_bind_groups = {GenEntity}
    /\ DOMAIN gpu_voxel_materials = Entity
    /\ pc = "apply_commands"

\* The volume no longer exists in the control domain.
Despawned(e) == e \in DOMAIN world /\ world[e].despawned

\* C22 (entries are never removed): every step keeps every entry of the
\* resources map and of the bind group map, inserting or replacing only;
\* extract leaves the entry of a volume it does not visit as it is; and
\* once the producer step has run in a round, a message of that round was
\* sent for every entry of the resources map, the entries of volumes that
\* no longer exist in the control domain included.
C22_EntriesNeverRemoved ==
    /\ [][ /\ DOMAIN gpu_voxel_materials \subseteq DOMAIN gpu_voxel_materials'
           /\ DOMAIN voxel_material_bind_groups
                 \subseteq DOMAIN voxel_material_bind_groups'
           /\ ExtractStep =>
                 \A e \in DOMAIN gpu_voxel_materials \ WithMaterialAndVolumetric :
                     gpu_voxel_materials'[e] = gpu_voxel_materials[e] ]_vars
    /\ [](RoundCompleted =>
            \A e \in DOMAIN gpu_voxel_materials :
                \E i \in SentThisRound : sent[i].entity = e)

\* The user's volume was despawned after the first round; the second round
\* has run, its entries are still there and a message was sent for it.
C22_Witness ==
    /\ Despawned(UserEntity)
    /\ UserEntity \in DOMAIN gpu_voxel_materials
    /\ UserEntity \in DOMAIN voxel_material_bind_groups
    /\ pc = "cleanup" /\ round = 2
    /\ \E i \in SentThisRound : sent[i].entity = UserEntity
    /\ \E i \in DOMAIN sent : sent[i].entity = UserEntity /\ sent[i].round = 1

\* No staging buffer of the resources map is mapped.
NoneMapped(materials) ==
    \A e \in DOMAIN materials : ~materials[e].vertices_staging_buffer.mapped

\* C23 (no staging buffer is mapped at a copy or at the end of a round):
\* when the node runs, no staging buffer is mapped, before and after, so
\* every copy it encodes goes into an unmapped buffer; when the producer
\* step returns it has unmapped every staging buffer it mapped; and no
\* staging buffer is mapped once a round has completed.
C23_UnmappedAtCopyAndRoundEnd ==
    /\ [][ /\ NodeStep =>
                 /\ NoneMapped(gpu_voxel_materials)
                 /\ NoneMapped(gpu_voxel_materials')
                 /\ \A c \in encoder' :
                       c.op = "copy" =>
                           ~gpu_voxel_materials[c.entity].vertices_staging_buffer.mapped
           /\ (pc = "map" /\ pc' = "cleanup") => NoneMapped(gpu_voxel_materials')
         ]_vars
    /\ [](RoundCompleted => NoneMapped(gpu_voxel_materials))

\* The node has just run in the second round and copied into the generated
\* volume's staging buffer; the staging buffer of the user's volume,
\* despawned after the first round, is the one the producer mapped and
\* unmapped in the first round.
C23_Witness ==
    /\ pc = "map" /\ round = 2 /\ map_todo = DOMAIN gpu_voxel_materials
    /\ CommandsFor(GenEntity, "copy") # {}
    /\ Despawned(UserEntity)
    /\ UserEntity \in DOMAIN gpu_voxel_materials
    /\ \E i \in DOMAIN sent : sent[i].entity = UserEntity /\ sent[i].round = 1
    /\ NoneMapped(gpu_voxel_materials)

====
